---- MODULE Spec2Model ----
(***************************************************************************)
(* Model of the state-of-being ingestion core: the health pipeline of      *)
(* src/src/healthkit.ts and the location pipeline of src/src/location.ts.   *)
(*                                                                         *)
(* A JSON object is a sequence of fields [k, t, v] in key order (t is the   *)
(* JSON type of the value, "num" or "str"; v is the value's text), so that  *)
(* the key order Zod produces and JSON.stringify persists is observable.    *)
(* A file is [tag, shapeOk, items, top]: tag "absent" (the reader throws),  *)
(* "garbage" (JSON.parse throws) or "json"; shapeOk says the document has   *)
(* the top-level shape of its schema; items are the elements of its list;   *)
(* top is the set of top-level keys of a document that is an object.        *)
(***************************************************************************)
EXTENDS Integers, Sequences, FiniteSets, TLC

\* ------------------------------------------------------------------ bounds
\* Orchestrator invocations in one behaviour.
MaxRuns == 2
\* Injected reader or writer failures in one behaviour.
MaxFaults == 1
\* Invocations of the location pipeline in a behaviour of that pipeline alone.
MaxLocRuns == 3
\* Runs of the process-issue command in a behaviour of the command.
MaxCommands == 1
\* Invocations in a behaviour of two concurrent processes.
MaxConcRuns == 2

\* ------------------------------------------------------------ JSON objects
Num(k, v) == [k |-> k, t |-> "num", v |-> v]
Str(k, v) == [k |-> k, t |-> "str", v |-> v]

\* 'k' in item
Has(item, k) == \E i \in 1..Len(item) : item[i].k = k

\* item[k], for a key the item has
Get(item, k) == item[CHOOSE i \in 1..Len(item) : item[i].k = k]

\* Object.keys(item)
Keys(item) == [i \in 1..Len(item) |-> item[i].k]

\* item.date: the text of the date field; "" stands for every falsy value
\* (a missing field and the empty string alike).
DateOf(item) == IF Has(item, "date") THEN Get(item, "date").v ELSE ""

Req(k, t) == [k |-> k, t |-> t, opt |-> FALSE]
Opt(k, t) == [k |-> k, t |-> t, opt |-> TRUE]

\* ------------------------------------------------------------- Zod schemas
HeartRateDataSchema ==
    << Opt("Max", "num"), Opt("Avg", "num"), Opt("Min", "num"),
       Opt("source", "str"), Req("date", "str") >>

HeartRateVariabilityDataSchema ==
    << Req("qty", "num"), Req("date", "str") >>

SleepAnalysisDataSchema ==
    << Opt("inBedStart", "str"), Opt("awake", "num"), Opt("source", "str"),
       Opt("sleepStart", "str"), Opt("totalSleep", "num"), Opt("sleepEnd", "str"),
       Req("date", "str"), Opt("deep", "num"), Opt("rem", "num"),
       Opt("inBedEnd", "str"), Opt("inBed", "num"), Opt("core", "num"),
       Opt("asleep", "num") >>

BodyTemperatureDataSchema ==
    << Req("date", "str"), Req("qty", "num") >>

ShapeKeys(shape) == { shape[i].k : i \in 1..Len(shape) }

\* z.object(shape).safeParse(item).success
SchemaOk(shape, item) ==
    \A i \in 1..Len(shape) :
        IF Has(item, shape[i].k)
        THEN Get(item, shape[i].k).t = shape[i].t
        ELSE shape[i].opt

\* The fields of the shape that the item has, in the order of the shape.
ShapedFields(shape, item) ==
    LET present == SelectSeq(shape, LAMBDA s : Has(item, s.k))
    IN  [i \in 1..Len(present) |-> Get(item, present[i].k)]

\* The data of z.object(shape).passthrough().safeParse(item): the declared
\* keys in declaration order, then the unknown keys in input order.
ParsePassthrough(shape, item) ==
    ShapedFields(shape, item)
        \o SelectSeq(item, LAMBDA f : f.k \notin ShapeKeys(shape))

\* The data of z.object(shape).safeParse(item): unknown keys are stripped.
ParseStrip(shape, item) == ShapedFields(shape, item)

\* The options of the z.union of HealthDataFileSchema, in order.
FileUnionOptions ==
    << HeartRateDataSchema, HeartRateVariabilityDataSchema,
       SleepAnalysisDataSchema, BodyTemperatureDataSchema >>

FileItemOk(item) ==
    \E i \in 1..Len(FileUnionOptions) : SchemaOk(FileUnionOptions[i], item)

\* z.union returns the data of the first option that accepts the item.
FileItemParse(item) ==
    LET i == CHOOSE j \in 1..Len(FileUnionOptions) :
                 /\ SchemaOk(FileUnionOptions[j], item)
                 /\ \A h \in 1..(j - 1) : ~SchemaOk(FileUnionOptions[h], item)
    IN  ParsePassthrough(FileUnionOptions[i], item)

\* ------------------------------------------------------------------ files
Absent == [tag |-> "absent", shapeOk |-> FALSE, items |-> << >>, top |-> {}]
Garbage == [tag |-> "garbage", shapeOk |-> FALSE, items |-> << >>, top |-> {}]
\* A JSON document without the top-level shape of the file schema.
WrongShape == [tag |-> "json", shapeOk |-> FALSE, items |-> << >>, top |-> {}]

\* JSON.stringify(value, null, 2) of an array: the text holds the items,
\* each with its keys in insertion order.
Stringify(items) ==
    [tag |-> "json", shapeOk |-> TRUE, items |-> items, top |-> {}]

\* JSON.stringify(value, null, 2) of an object with a list under metrics:
\* the text holds the top-level keys of the object and the items of the list.
StringifyData(data) ==
    [ tag |-> "json", shapeOk |-> TRUE, items |-> data.metrics,
      top |-> DOMAIN data ]

METRIC_TO_FILE_MAP ==
    [ heart_rate |-> "hr.json",
      heart_rate_variability |-> "hrv.json",
      body_temperature |-> "bodySurfaceTemp.json",
      sleep_analysis |-> "sleep.json" ]

HealthFiles ==
    { "hr.json", "hrv.json", "bodySurfaceTemp.json", "sleep.json",
      "restingHeartRate.json" }

LocationFile == "location.json"

\* getMetricFilePath: the file of a metric name, "" for null.
GetMetricFilePath(metricName) ==
    IF metricName \in DOMAIN METRIC_TO_FILE_MAP
    THEN METRIC_TO_FILE_MAP[metricName]
    ELSE ""

\* readExistingData without its schema check: the parsed elements as they are.
ReadWithoutValidation(content, readerFails) ==
    IF readerFails \/ content.tag # "json" THEN << >> ELSE content.items

\* readExistingData: the validated records of the file, the empty structure
\* when the reader throws, JSON.parse throws or the schema rejects.
ReadExistingData(content, readerFails) ==
    IF readerFails \/ content.tag # "json" THEN << >>
    ELSE IF ~content.shapeOk THEN << >>
    ELSE IF \E i \in 1..Len(content.items) : ~FileItemOk(content.items[i])
    THEN << >>
    ELSE [i \in 1..Len(content.items) |-> FileItemParse(content.items[i])]

\* -------------------------------------------------- deduplication engine
\* getItemIdentifier: item.date || JSON.stringify(item).  The two kinds of
\* identifier are kept apart by a tag: no date of the model is the JSON text
\* of a record.
GetItemIdentifier(item) ==
    IF DateOf(item) # ""
    THEN << "date", DateOf(item), << >> >>
    ELSE << "json", "", item >>

IsIncompleteSleepEntry(item) ==
    /\ Has(item, "source") /\ Has(item, "date")
    /\ ~(Has(item, "totalSleep") \/ Has(item, "inBedStart") \/ Has(item, "sleepStart"))
    /\ Len(Keys(item)) = 2

\* newMetricsByDate.get(date): the new records filed under a date; records
\* with a falsy date are filed under none.
NewMetricsForDate(newMetrics, date) ==
    SelectSeq(newMetrics, LAMBDA n : DateOf(n) # "" /\ DateOf(n) = date)

\* The filter with a complete stored record surviving a new record of its
\* date (first write wins).
KeepExistingFirstWins(existing, newMetrics) ==
    LET date == DateOf(existing)
        newMetricsForDate == NewMetricsForDate(newMetrics, date)
    IN  IF date = "" THEN TRUE
        ELSE IF Len(newMetricsForDate) = 0 THEN TRUE
        ELSE ~IsIncompleteSleepEntry(existing)

\* A filter that drops the stored records without a date.
KeepExistingWithDate(existing, newMetrics) ==
    LET date == DateOf(existing)
        newMetricsForDate == NewMetricsForDate(newMetrics, date)
    IN  date # "" /\ Len(newMetricsForDate) = 0

\* The predicate of existingMetrics.filter(...).
KeepExisting(existing, newMetrics) ==
    LET date == DateOf(existing)
        newMetricsForDate == NewMetricsForDate(newMetrics, date)
    IN  IF date = "" THEN TRUE
        ELSE IF Len(newMetricsForDate) = 0 THEN TRUE
        ELSE IF IsIncompleteSleepEntry(existing) THEN FALSE
        ELSE ~(\E i \in 1..Len(newMetricsForDate) :
                   GetItemIdentifier(newMetricsForDate[i]) = GetItemIdentifier(existing))

\* A filter that keeps every stored record and drops the new records of a
\* stored date.
DeduplicateKeepingStored(existingMetrics, newMetrics) ==
    [ filteredNewMetrics |->
          SelectSeq(newMetrics,
                    LAMBDA n : \A i \in 1..Len(existingMetrics) :
                                   GetItemIdentifier(existingMetrics[i])
                                       # GetItemIdentifier(n)),
      filteredExistingMetrics |-> existingMetrics ]

DeduplicateMetrics(existingMetrics, newMetrics) ==
    LET filteredExistingMetrics ==
            SelectSeq(existingMetrics, LAMBDA e : KeepExisting(e, newMetrics))
        existingIdentifiers ==
            { GetItemIdentifier(filteredExistingMetrics[i]) :
                  i \in 1..Len(filteredExistingMetrics) }
        filteredNewMetrics ==
            SelectSeq(newMetrics, LAMBDA n : GetItemIdentifier(n) \notin existingIdentifiers)
    IN  [ filteredNewMetrics |-> filteredNewMetrics,
          filteredExistingMetrics |-> filteredExistingMetrics ]

\* The merge with the new records first.
MergedNewFirst(filteredExistingMetrics, filteredNewMetrics) ==
    filteredNewMetrics \o filteredExistingMetrics

\* mergedData.metrics of processMetric.
MergedMetrics(filteredExistingMetrics, filteredNewMetrics) ==
    filteredExistingMetrics \o filteredNewMetrics

\* A merged document that also carries the creation time of the issue.
MergedDataWithCreatedAt(filteredExistingMetrics, filteredNewMetrics) ==
    [ issueCreatedAt |-> "2025-10-27T10:00:00Z",
      metrics |-> MergedMetrics(filteredExistingMetrics, filteredNewMetrics) ]

\* mergedData of processMetric: { metrics: [...] } and no other key.
MergedData(filteredExistingMetrics, filteredNewMetrics) ==
    [ metrics |-> MergedMetrics(filteredExistingMetrics, filteredNewMetrics) ]

\* ---------------------------------------------------------- metric entries
KnownMetricNames ==
    { "heart_rate", "heart_rate_variability", "sleep_analysis", "body_temperature" }

MetricDataSchema(name) ==
    CASE name = "heart_rate" -> HeartRateDataSchema
      [] name = "heart_rate_variability" -> HeartRateVariabilityDataSchema
      [] name = "sleep_analysis" -> SleepAnalysisDataSchema
      [] OTHER -> BodyTemperatureDataSchema

MetricUnits(name) ==
    CASE name = "heart_rate" -> "count/min"
      [] name = "heart_rate_variability" -> "ms"
      [] name = "sleep_analysis" -> "hr"
      [] OTHER -> "degC"

\* HealthMetricSchema.safeParse(metric).success
HealthMetricOk(metric) ==
    /\ metric.name \in KnownMetricNames
    /\ metric.units = MetricUnits(metric.name)
    /\ \A i \in 1..Len(metric.data) :
           SchemaOk(MetricDataSchema(metric.name), metric.data[i])

\* validatedMetric.data
ValidatedData(metric) ==
    [i \in 1..Len(metric.data) |->
        ParsePassthrough(MetricDataSchema(metric.name), metric.data[i])]

\* ---------------------------------------------------------------- messages
Msg(t, name, n, replaced) ==
    [t |-> t, name |-> name, n |-> n, replaced |-> replaced]

\* An unmapped name reported as a failure instead of a skip.
UnknownMetricFails(name) ==
    [success |-> FALSE, message |-> Msg("skip", name, 0, 0)]

\* `Skipping unknown metric: ${name}` of an unmapped name, with success true.
UnknownMetricResult(name) ==
    [success |-> TRUE, message |-> Msg("skip", name, 0, 0)]

\* A mapped name that fails the strict schema reported as a failure.
InvalidMetricFails(name) ==
    [success |-> FALSE, message |-> Msg("invalid", name, 0, 0)]

\* The same message for a mapped name that fails the strict schema.
InvalidMetricResult(name) ==
    [success |-> TRUE, message |-> Msg("skip", name, 0, 0)]

\* result.message.includes("Skipping unknown metric")
IsSkipMessage(message) == message.t = "skip"

\* ------------------------------------------------------------ processMetric
\* What one call of processMetric does on a file content, up to the writer
\* call: whether it reads, what it read, the two filtered lists, whether it
\* calls the writer, with which records (toWrite) in which text (content),
\* and the result it returns when the writer does not throw.
ProcessMetric(metric, content, readerFails) ==
    LET filePath == GetMetricFilePath(metric.name)
        none == [ reads |-> FALSE, writes |-> FALSE, path |-> filePath,
                  existing |-> << >>, batch |-> << >>,
                  fe |-> << >>, fn |-> << >>, toWrite |-> << >>,
                  content |-> Absent,
                  result |-> UnknownMetricResult(metric.name) ]
    IN  IF filePath = "" THEN none
        ELSE IF ~HealthMetricOk(metric)
        THEN [none EXCEPT !.result = InvalidMetricResult(metric.name)]
        ELSE
          LET existing == ReadExistingData(content, readerFails)
              batch == ValidatedData(metric)
              d == DeduplicateMetrics(existing, batch)
              fn == d.filteredNewMetrics
              fe == d.filteredExistingMetrics
              incompleteReplaced == Len(existing) - Len(fe)
          IN  IF Len(fn) = 0
              THEN [ reads |-> TRUE, writes |-> FALSE, path |-> filePath,
                     existing |-> existing, batch |-> batch,
                     fe |-> fe, fn |-> fn, toWrite |-> << >>,
                     content |-> Absent,
                     result |-> [ success |-> TRUE,
                                  message |-> Msg("nonew", metric.name, 0, 0) ] ]
              ELSE [ reads |-> TRUE, writes |-> TRUE, path |-> filePath,
                     existing |-> existing, batch |-> batch,
                     fe |-> fe, fn |-> fn, toWrite |-> MergedData(fe, fn).metrics,
                     content |-> StringifyData(MergedData(fe, fn)),
                     result |-> [ success |-> TRUE,
                                  message |-> Msg("saved", metric.name, Len(fn),
                                                  incompleteReplaced) ] ]

\* ------------------------------------------------------------------ inputs
D1 == "2025-10-26"
D2 == "2025-10-27"

\* Dates compare as their texts do: D1 < D2, and "" before both.
DateRank(d) == IF d = "" THEN 0 ELSE IF d = D1 THEN 1 ELSE 2

HrA == << Num("Max", "90"), Str("source", "Ultrahuman"), Str("date", D1) >>
HrB == << Num("Max", "100"), Str("source", "Apple Watch"), Str("date", D1) >>
HrC == << Num("Max", "95"), Str("source", "Ultrahuman"), Str("date", D2) >>
HrNoDate == << Num("Max", "90"), Str("date", "") >>
HrvA == << Num("qty", "89"), Str("date", D1) >>
HrvNoDate == << Num("qty", "89"), Str("date", "") >>
TempA == << Str("date", D1), Num("qty", "35") >>
SleepStub == << Str("source", "Ultrahuman"), Str("date", D1) >>
SleepFull ==
    << Str("source", "Ultrahuman"), Num("totalSleep", "5"), Str("date", D1) >>
RhrA == << Num("qty", "52"), Str("date", D1) >>
Other == << Num("value", "1") >>

Metric(name, units, data) == [name |-> name, units |-> units, data |-> data]

Hr(data) == Metric("heart_rate", "count/min", data)
Hrv(data) == Metric("heart_rate_variability", "ms", data)
Temp(data) == Metric("body_temperature", "degC", data)
Sleep(data) == Metric("sleep_analysis", "hr", data)
Rhr(data) == Metric("resting_heart_rate", "count/min", data)

\* The payload of the test suite's sample issue, one record per kind.
SampleMetrics ==
    << Hr(<< HrA >>), Hrv(<< HrvA >>), Temp(<< TempA >>),
       Sleep(<< SleepFull >>), Rhr(<< RhrA >>) >>

\* The data.metrics arrays the model delivers.
MetricLists ==
    { << Hr(<< HrA >>) >>, << Hr(<< HrB >>) >>, << Hr(<< HrC, HrA >>) >>,
      << Hr(<< HrA, HrB >>) >>, << Hr(<< HrA, HrNoDate >>) >>,
      << Sleep(<< SleepStub >>) >>, << Sleep(<< SleepFull >>) >>,
      << Sleep(<< SleepFull, SleepStub >>) >>,
      << Hrv(<< HrvNoDate >>) >>,
      << Metric("heart_rate", "bpm", << HrA >>), Hr(<< Other >>) >>,
      << Metric("unknown_metric", "unit", << Other >>), Hr(<< HrC >>) >>,
      << Hr(<< HrA >>), Hr(<< HrC >>) >>,
      << Hr(<< HrNoDate >>) >>,
      SampleMetrics }

\* An issue body: text that is not JSON, JSON without data.metrics, or an
\* export.
BodyText == [kind |-> "text", ok |-> FALSE, metrics |-> << >>]
BodyNoMetrics == [kind |-> "json", ok |-> FALSE, metrics |-> << >>]
BodyExport(metrics) == [kind |-> "json", ok |-> TRUE, metrics |-> metrics]

EXPECTED_ISSUE_TITLE == "HealthDataExport"

\* issue.createdAt of a health issue: "" when the issue has none; the
\* issues of two payloads carry the creation time of the test suite.
HealthCreatedAt(metrics) ==
    IF metrics \in { << Hrv(<< HrvNoDate >>) >>, << Hr(<< HrB >>) >> }
    THEN "2025-10-27T10:00:00Z" ELSE ""

HealthIssues ==
    { [ title |-> EXPECTED_ISSUE_TITLE, body |-> BodyExport(m),
        createdAt |-> HealthCreatedAt(m) ] : m \in MetricLists }
    \cup { [ title |-> EXPECTED_ISSUE_TITLE, body |-> BodyText,
             createdAt |-> "" ],
           [ title |-> EXPECTED_ISSUE_TITLE, body |-> BodyNoMetrics,
             createdAt |-> "" ],
           [ title |-> "SomethingElse", body |-> BodyExport(SampleMetrics),
             createdAt |-> "" ] }

\* A title check that lets every title through.
AnyTitleValid(title) == TRUE

\* validateIssueTitle(title).isValid
ValidateIssueTitle(title) == title = EXPECTED_ISSUE_TITLE

\* A parse that accepts every body.
ParseAcceptsAll(body) == [success |-> TRUE, error |-> ""]

\* parseHealthData(body): success, and the error kind when it fails.
ParseHealthData(body) ==
    IF body.kind # "json" THEN [success |-> FALSE, error |-> "parse"]
    ELSE IF ~body.ok THEN [success |-> FALSE, error |-> "validation"]
    ELSE [success |-> TRUE, error |-> ""]

\* --------------------------------------------------------- location input
LocationDataSchema == << Req("city", "str"), Req("country", "str") >>

LocationEntrySchema ==
    << Req("date", "str"), Req("city", "str"), Req("country", "str") >>

LOCATION_ISSUE_TITLE == "LocationDataExport"

\* validateLocationIssueTitle(title).isValid
ValidateLocationIssueTitle(title) == title = LOCATION_ISSUE_TITLE

\* A location body: text that is not JSON, or a JSON object.
LocationText == [kind |-> "text", json |-> << >>]
LocationJson(obj) == [kind |-> "json", json |-> obj]

LocationBodies ==
    { LocationText,
      LocationJson(<< Str("country", "India") >>),
      LocationJson(<< Str("city", "New Delhi"), Str("country", "India") >>),
      LocationJson(<< Str("city", "New Delhi"), Str("country", "Bharat") >>),
      LocationJson(<< Str("city", "new delhi"), Str("country", "India") >>),
      LocationJson(<< Str("country", "India"), Str("city", "Goa"),
                      Str("date", "1999-01-01") >>) }

\* issue.createdAt: absent, except on the issue whose body carries a date.
CreatedAt(body) ==
    IF body.kind = "json" /\ Has(body.json, "date") THEN "1999-01-02" ELSE ""

LocationIssues ==
    { [title |-> LOCATION_ISSUE_TITLE, body |-> b, createdAt |-> CreatedAt(b)] :
          b \in LocationBodies }
    \cup { [ title |-> EXPECTED_ISSUE_TITLE, body |-> LocationText,
             createdAt |-> "" ],
           [ title |-> "SomethingElse",
             body |-> LocationJson(<< Str("city", "New Delhi"),
                                      Str("country", "India") >>),
             createdAt |-> "" ] }

\* The values getCurrentDate() returns.
FirstDay == "2025-11-01"
Days == { FirstDay, "2025-11-02" }

\* The order of the days: the clock does not go back.
DayRank(d) == IF d = FirstDay THEN 1 ELSE 2

\* parseLocationData(body): success, the parsed data, the error kind.
ParseLocationData(body) ==
    IF body.kind # "json"
    THEN [success |-> FALSE, data |-> << >>, error |-> "parse"]
    ELSE IF ~SchemaOk(LocationDataSchema, body.json)
    THEN [success |-> FALSE, data |-> << >>, error |-> "validation"]
    ELSE [ success |-> TRUE, data |-> ParseStrip(LocationDataSchema, body.json),
           error |-> "" ]

\* readExistingLocationData: the validated entries of the file, the empty
\* array when the reader throws, JSON.parse throws or the schema rejects.
ReadExistingLocationData(content, readerFails) ==
    IF readerFails \/ content.tag # "json" THEN << >>
    ELSE IF ~content.shapeOk THEN << >>
    ELSE IF \E i \in 1..Len(content.items) :
                ~SchemaOk(LocationEntrySchema, content.items[i])
    THEN << >>
    ELSE [i \in 1..Len(content.items) |->
             ParseStrip(LocationEntrySchema, content.items[i])]

\* The first entry of the history instead of the last.
GetFirstLocationEntry(locationData) ==
    IF Len(locationData) = 0 THEN << >> ELSE locationData[1]

\* getLastLocationEntry, << >> for null.
GetLastLocationEntry(locationData) ==
    IF Len(locationData) = 0 THEN << >> ELSE locationData[Len(locationData)]

\* A comparison of city and country.
SameCityAndCountry(lastEntry, locationData) ==
    /\ lastEntry # << >>
    /\ Get(lastEntry, "city").v = Get(locationData, "city").v
    /\ Get(lastEntry, "country").v = Get(locationData, "country").v

\* The city in lower case, for the cities of LocationBodies.
LowerCase(city) == IF city = "New Delhi" THEN "new delhi" ELSE city

\* A comparison of the cities without regard to case.
SameCityIgnoringCase(lastEntry, locationData) ==
    /\ lastEntry # << >>
    /\ LowerCase(Get(lastEntry, "city").v) = LowerCase(Get(locationData, "city").v)

\* A comparison that finds no city equal to the last one.
NeverSameAsLastEntry(lastEntry, locationData) == FALSE

\* lastEntry && lastEntry.city === locationData.city
SameAsLastEntry(lastEntry, locationData) ==
    /\ lastEntry # << >>
    /\ Get(lastEntry, "city").v = Get(locationData, "city").v

\* A new entry that always carries the first day.
NewEntryOnFirstDay(currentDate, locationData) ==
    << Str("date", FirstDay), Get(locationData, "city"),
       Get(locationData, "country") >>

\* newEntry of ingestLocationDataFromIssue.
NewLocationEntry(currentDate, locationData) ==
    << Str("date", currentDate), Get(locationData, "city"),
       Get(locationData, "country") >>

\* ------------------------------------------------------------------- state
VARIABLES
    files,      \* path -> content of the vault
    pc,         \* "idle", or "loop" inside ingestHealthDataFromIssue
    issue,      \* the issue of the last invocation, when it was a health one
    commenter,  \* whether that invocation was given a commenter
    idx,        \* index of the next metric entry of the loop
    results, errors, skipped,   \* the three buckets of the loop
    result,     \* what the last invocation returned
    comments,   \* the commenter calls of the last invocation
    calls,      \* the reader and writer calls of the last invocation
    step,       \* the last processMetric call of the invocation
    snap,       \* the vault when the invocation started
    repeated,   \* the invocation repeats the issue of a fault-free one
    finished,   \* the invocation ran its loop to the end
    clean,      \* no injected failure in the invocation
    loc,        \* the file access of the last invocation, when it was a location one
    now,        \* the latest day getCurrentDate() has returned
    cli,        \* the last run of the process-issue command
    conc,       \* two invocations at a time: their positions, the writer calls
    runs, faults

vars ==
    << files, pc, issue, commenter, idx, results, errors, skipped, result,
       comments, calls, step, snap, repeated, finished, clean, loc, now,
       cli, conc, runs, faults >>

NoIssue == [title |-> "", body |-> BodyText, createdAt |-> ""]

NoMetric == Metric("", "", << >>)

NoStep ==
    [ idx |-> 0, metric |-> NoMetric, before |-> Absent,
      readerFails |-> FALSE, writerFails |-> FALSE,
      out |-> ProcessMetric(NoMetric, Absent, FALSE) ]

NoResult == [returned |-> FALSE, success |-> FALSE, head |-> "", parts |-> << >>]

Return(success, head, parts) ==
    [returned |-> TRUE, success |-> success, head |-> head, parts |-> parts]

\* One call of the injected reader or writer: its path, the text handed to
\* the writer (Absent for a reader call), and whether it returned.
Call(op, path, i, ok, content) ==
    [op |-> op, path |-> path, idx |-> i, ok |-> ok, content |-> content]

\* A comment function that lets the failure of the post escape.
CommenterPropagates(postFails) == [posted |-> ~postFails, throws |-> postFails]

\* createGitHubCommenter: the comment function it returns posts the comment
\* and catches a failed post, so it never throws.
CreateGitHubCommenter(postFails) == [posted |-> ~postFails, throws |-> FALSE]

\* `if (commenter) await commenter(message)`: the calls the commenter gets.
Notify(c, message, postFails) ==
    IF c
    THEN << [ message |-> message,
              posted |-> CreateGitHubCommenter(postFails).posted ] >>
    ELSE << >>

\* The awaited commenter call throws.
NotifyThrows(c, postFails) == c /\ CreateGitHubCommenter(postFails).throws

NoLocIssue == [title |-> "", body |-> LocationText, createdAt |-> ""]

NoLoc ==
    [ issue |-> NoLocIssue,
      read |-> FALSE, before |-> Absent, readerFails |-> FALSE,
      writerFails |-> FALSE, existing |-> << >>, data |-> << >>,
      today |-> "", writes |-> FALSE ]

\* The options of one run of the process-issue command.
Command(number, title, body, author, createdAt) ==
    [ number |-> number, title |-> title, body |-> body, author |-> author,
      createdAt |-> createdAt ]

NoCommand == Command(0, "", BodyText, "", "")

\* No run of the command yet.
NoCli ==
    [ command |-> NoCommand, token |-> FALSE, stage |-> "none", code |-> -1,
      closed |-> FALSE ]

\* The two processes that run an invocation at the same time.
Procs == { 1, 2 }

\* A process outside an invocation.
IdleProc ==
    [ pc |-> "idle", path |-> "", metric |-> NoMetric, data |-> << >>,
      before |-> Absent, readAt |-> 0, delivered |-> << >>, content |-> Absent ]

NoConc == [proc |-> [p \in Procs |-> IdleProc], log |-> << >>]

\* A JSON document of the right top-level shape with an element that no
\* record schema accepts (it has no date).
BadItems ==
    [tag |-> "json", shapeOk |-> TRUE, items |-> << Other >>, top |-> {"metrics"}]

\* The content as a document of the file: the list of a health file is the
\* value of the key metrics, the location file is the list itself.
ContentOf(f, c) == IF f = LocationFile THEN [c EXCEPT !.top = {}] ELSE c

\* The vault before the first invocation: every file missing, unreadable as
\* JSON, JSON of another shape, or JSON with an invalid element.
InitialContents == { Absent, Garbage, WrongShape, BadItems }

Init ==
    /\ \E c \in InitialContents :
           files = [f \in HealthFiles \cup {LocationFile} |-> ContentOf(f, c)]
    /\ pc = "idle"
    /\ issue = NoIssue
    /\ commenter = FALSE
    /\ idx = 1
    /\ results = << >> /\ errors = << >> /\ skipped = << >>
    /\ result = NoResult
    /\ comments = << >>
    /\ calls = << >>
    /\ step = NoStep
    /\ snap = files
    /\ repeated = FALSE /\ finished = FALSE /\ clean = TRUE
    /\ loc = NoLoc
    /\ now = FirstDay
    /\ cli = NoCli
    /\ conc = NoConc
    /\ runs = 0 /\ faults = 0

\* -------------------------------------------- ingestHealthDataFromIssue
\* Steps 1 and 2: the title check and the parse of the body.  A mismatched
\* title and a body that does not parse end the invocation here.
StartHealth(i, c, postFails) ==
    /\ pc = "idle"
    /\ runs < MaxRuns
    /\ postFails =>
           /\ c /\ ValidateIssueTitle(i.title) /\ ~ParseHealthData(i.body).success
           /\ faults < MaxFaults
    /\ faults' = faults + (IF postFails THEN 1 ELSE 0)
    /\ runs' = runs + 1
    /\ issue' = i
    /\ commenter' = c
    /\ idx' = 1
    /\ results' = << >> /\ errors' = << >> /\ skipped' = << >>
    /\ calls' = << >>
    /\ step' = NoStep
    /\ snap' = files
    /\ repeated' = (finished /\ clean /\ i = issue)
    /\ finished' = FALSE
    /\ clean' = TRUE
    /\ IF ~ValidateIssueTitle(i.title)
       THEN /\ pc' = "idle"
            /\ comments' = << >>
            /\ result' = Return(TRUE, "not intended", << >>)
       ELSE IF ~ParseHealthData(i.body).success
       THEN /\ pc' = "idle"
            /\ comments' = Notify(c, ParseHealthData(i.body).error, postFails)
            /\ result' = IF NotifyThrows(c, postFails) THEN NoResult
                          ELSE Return(FALSE, ParseHealthData(i.body).error, << >>)
       ELSE /\ pc' = "loop"
            /\ comments' = << >>
            /\ result' = NoResult
    /\ loc' = NoLoc
    /\ UNCHANGED << files, now >>

\* Every reader call of the loop answered from the vault as it was when the
\* invocation started.
ReadAtStart(path) == snap[path]

\* `await reader(filePath)` inside the awaited processMetric of the loop: the
\* reader sees the file as the iterations before have left it.
ReadAtCall(path) == files[path]

\* Step 3, one iteration of the loop: processMetric on the next entry, with
\* the injected reader and writer failing or not, and the bucket the outcome
\* goes to.  A writer that throws makes processMetric throw; the loop
\* catches it and records `Error processing ${metric.name}: ...`.
ProcessStep(readerFails, writerFails) ==
    /\ pc = "loop"
    /\ idx <= Len(issue.body.metrics)
    /\ LET metric == issue.body.metrics[idx]
           path == GetMetricFilePath(metric.name)
           before == IF path = "" THEN Absent ELSE ReadAtCall(path)
           n == (IF readerFails THEN 1 ELSE 0) + (IF writerFails THEN 1 ELSE 0)
       IN
       \E out \in { ProcessMetric(metric, before, readerFails) } :
       LET outcome ==
               IF writerFails
               THEN [success |-> FALSE, message |-> Msg("error", metric.name, 0, 0)]
               ELSE out.result
       IN  /\ readerFails => (out.reads /\ before.tag # "absent")
           /\ writerFails => out.writes
           /\ faults + n <= MaxFaults
           /\ faults' = faults + n
           /\ clean' = (clean /\ n = 0)
           /\ calls' = calls
                  \o (IF out.reads
                      THEN << Call("read", path, idx, ~readerFails, Absent) >>
                      ELSE << >>)
                  \o (IF out.writes
                      THEN << Call("write", path, idx, ~writerFails, out.content) >>
                      ELSE << >>)
           /\ files' = IF out.writes /\ ~writerFails
                       THEN [files EXCEPT ![path] = out.content]
                       ELSE files
           /\ step' = [ idx |-> idx, metric |-> metric, before |-> before,
                        readerFails |-> readerFails, writerFails |-> writerFails,
                        out |-> out ]
           /\ IF outcome.success
              THEN IF IsSkipMessage(outcome.message)
                   THEN /\ skipped' = Append(skipped, outcome.message)
                        /\ UNCHANGED << results, errors >>
                   ELSE /\ results' = Append(results, outcome.message)
                        /\ UNCHANGED << skipped, errors >>
              ELSE /\ errors' = Append(errors, outcome.message)
                   /\ UNCHANGED << results, skipped >>
    /\ idx' = idx + 1
    /\ UNCHANGED << pc, issue, commenter, result, comments, snap, repeated,
                    finished, loc, now, runs >>

\* The loop left at the first collected error instead of at its end.
FinishHealthOnError(postFails) ==
    /\ pc = "loop"
    /\ idx > Len(issue.body.metrics) \/ Len(errors) > 0
    /\ postFails => (commenter /\ faults < MaxFaults)
    /\ faults' = faults + (IF postFails THEN 1 ELSE 0)
    /\ pc' = "idle"
    /\ finished' = TRUE
    /\ IF Len(errors) > 0
       THEN /\ comments' = Notify(commenter, "errors", postFails)
            /\ result' = Return(FALSE, "errors", errors)
       ELSE /\ comments' = Notify(commenter, "success", postFails)
            /\ result' = Return(TRUE, "ingested", results \o skipped)
    /\ UNCHANGED << files, issue, commenter, idx, results, errors, skipped,
                    calls, step, snap, repeated, clean, loc, now, runs >>

\* Step 4: the result and the one comment of an invocation that ran its loop.
FinishHealth(postFails) ==
    /\ pc = "loop"
    /\ idx > Len(issue.body.metrics)
    /\ postFails => (commenter /\ faults < MaxFaults)
    /\ faults' = faults + (IF postFails THEN 1 ELSE 0)
    /\ pc' = "idle"
    /\ finished' = TRUE
    /\ IF Len(errors) > 0
       THEN /\ comments' = Notify(commenter, "errors", postFails)
            /\ result' = IF NotifyThrows(commenter, postFails) THEN NoResult
                          ELSE Return(FALSE, "errors", errors)
       ELSE /\ comments' = Notify(commenter, "success", postFails)
            /\ result' = IF NotifyThrows(commenter, postFails) THEN NoResult
                          ELSE Return(TRUE, "ingested", results \o skipped)
    /\ UNCHANGED << files, issue, commenter, idx, results, errors, skipped,
                    calls, step, snap, repeated, clean, loc, now, runs >>

\* ---------------------------------------------- ingestHealthDataFromExport
\* A result that lists the skipped entries before the saved ones.
ExportResultSkippedFirst(res, errs, skips) ==
    IF Len(errs) > 0
    THEN Return(FALSE, "errors", errs)
    ELSE Return(TRUE, "ingested", skips \o res)

\* What ingestHealthDataFromExport returns after its loop.
ExportResult(res, errs, skips) ==
    IF Len(errs) > 0
    THEN Return(FALSE, "errors", errs)
    ELSE Return(TRUE, "ingested", res \o skips)

RECURSIVE ExportLoop(_, _, _, _, _, _)
\* The loop of ingestHealthDataFromExport from entry j on: vault is the
\* vault so far, acc the calls made and the three buckets so far;
\* readerFailed and writerFailed are the entries whose reader call and
\* writer call throw.
ExportLoop(metrics, j, vault, acc, readerFailed, writerFailed) ==
    IF j > Len(metrics)
    THEN [ files |-> vault, calls |-> acc.calls,
           result |-> ExportResult(acc.results, acc.errors, acc.skipped) ]
    ELSE
      LET metric == metrics[j]
          path == GetMetricFilePath(metric.name)
          before == IF path = "" THEN Absent ELSE vault[path]
          out == ProcessMetric(metric, before, j \in readerFailed)
          writerFails == out.writes /\ j \in writerFailed
          outcome ==
              IF writerFails
              THEN [success |-> FALSE, message |-> Msg("error", metric.name, 0, 0)]
              ELSE out.result
          made ==
              (IF out.reads
               THEN << Call("read", path, j, j \notin readerFailed, Absent) >>
               ELSE << >>)
              \o (IF out.writes
                  THEN << Call("write", path, j, ~writerFails, out.content) >>
                  ELSE << >>)
      IN  ExportLoop(
              metrics, j + 1,
              IF out.writes /\ ~writerFails
              THEN [vault EXCEPT ![path] = out.content] ELSE vault,
              [ calls |-> acc.calls \o made,
                results |-> IF outcome.success /\ ~IsSkipMessage(outcome.message)
                            THEN Append(acc.results, outcome.message)
                            ELSE acc.results,
                errors |-> IF ~outcome.success
                           THEN Append(acc.errors, outcome.message)
                           ELSE acc.errors,
                skipped |-> IF outcome.success /\ IsSkipMessage(outcome.message)
                            THEN Append(acc.skipped, outcome.message)
                            ELSE acc.skipped ],
              readerFailed, writerFailed)

\* ingestHealthDataFromExport(healthData, writer, reader) on a vault: the
\* vault it leaves, the reader and writer calls it makes, what it returns.
IngestHealthDataFromExport(healthData, vault, readerFailed, writerFailed) ==
    ExportLoop(healthData.metrics, 1, vault,
               [ calls |-> << >>, results |-> << >>, errors |-> << >>,
                 skipped |-> << >> ],
               readerFailed, writerFailed)

HealthNext ==
    \/ \E i \in HealthIssues, c \in BOOLEAN, pf \in BOOLEAN : StartHealth(i, c, pf)
    \/ \E rf \in BOOLEAN, wf \in BOOLEAN : ProcessStep(rf, wf)
    \/ \E pf \in BOOLEAN : FinishHealth(pf)

\* ------------------------------------------ ingestLocationDataFromIssue
\* One invocation, from the title check to the return.  A writer that throws
\* is not caught: the invocation ends by throwing and returns nothing.
IngestLocation(i, c, readerFails, writerFails, postFails, today) ==
    /\ pc = "idle"
    /\ runs < MaxLocRuns
    /\ runs' = runs + 1
    /\ (readerFails \/ writerFails \/ postFails) =>
           (faults < MaxFaults /\ ValidateLocationIssueTitle(i.title))
    /\ \E parseResult \in { ParseLocationData(i.body) },
          existingLocations \in
              { ReadExistingLocationData(files[LocationFile], readerFails) } :
       LET before == files[LocationFile]
           lastEntry == GetLastLocationEntry(existingLocations)
           same == SameAsLastEntry(lastEntry, parseResult.data)
           updatedLocations ==
               existingLocations \o << NewLocationEntry(today, parseResult.data) >>
           reads == ValidateLocationIssueTitle(i.title) /\ parseResult.success
           writes == reads /\ ~same
           notifies == /\ c /\ ValidateLocationIssueTitle(i.title)
                       /\ ~(writes /\ writerFails)
           n == (IF readerFails THEN 1 ELSE 0) + (IF writerFails THEN 1 ELSE 0)
                + (IF postFails THEN 1 ELSE 0)
       IN  /\ readerFails => (reads /\ before.tag # "absent")
           /\ writerFails => writes
           /\ postFails => notifies
           \* getCurrentDate() is called on the write path only
           /\ IF writes THEN DayRank(today) >= DayRank(now) ELSE today = now
           /\ now' = today
           /\ faults + n <= MaxFaults
           /\ faults' = faults + n
           /\ calls' = (IF reads
                        THEN << Call("read", LocationFile, 0, ~readerFails, Absent) >>
                        ELSE << >>)
                  \o (IF writes
                      THEN << Call("write", LocationFile, 0, ~writerFails,
                                   Stringify(updatedLocations)) >>
                      ELSE << >>)
           /\ loc' = IF reads
                     THEN [ issue |-> i, read |-> TRUE, before |-> before,
                            readerFails |-> readerFails,
                            writerFails |-> writerFails,
                            existing |-> existingLocations,
                            data |-> parseResult.data,
                            today |-> IF writes THEN today ELSE "",
                            writes |-> writes ]
                     ELSE [NoLoc EXCEPT !.issue = i]
           /\ files' = IF writes /\ ~writerFails
                       THEN [files EXCEPT ![LocationFile] = Stringify(updatedLocations)]
                       ELSE files
           /\ IF ~ValidateLocationIssueTitle(i.title)
              THEN /\ comments' = << >>
                   /\ result' = Return(TRUE, "not intended", << >>)
              ELSE IF ~parseResult.success
              THEN /\ comments' = Notify(c, parseResult.error, postFails)
                   /\ result' = IF NotifyThrows(c, postFails) THEN NoResult
                                 ELSE Return(FALSE, parseResult.error, << >>)
              ELSE IF same
              THEN /\ comments' = Notify(c, "not updated", postFails)
                   /\ result' = IF NotifyThrows(c, postFails) THEN NoResult
                                 ELSE Return(TRUE, "not updated", << >>)
              ELSE IF writerFails
              THEN /\ comments' = << >>
                   /\ result' = NoResult
              ELSE /\ comments' = Notify(c, "updated", postFails)
                   /\ result' = IF NotifyThrows(c, postFails) THEN NoResult
                                 ELSE Return(TRUE, "updated", << >>)
    /\ issue' = NoIssue
    /\ commenter' = c
    /\ idx' = 1
    /\ results' = << >> /\ errors' = << >> /\ skipped' = << >>
    /\ step' = NoStep
    /\ snap' = files
    /\ repeated' = FALSE /\ finished' = FALSE /\ clean' = TRUE
    /\ UNCHANGED pc

\* The failures an invocation on issue i can meet: none once MaxFaults are
\* spent or when the title ends the invocation at once.
FaultChoices(i) ==
    IF faults < MaxFaults /\ ValidateLocationIssueTitle(i.title)
    THEN BOOLEAN ELSE { FALSE }

LocationNext ==
    \E i \in LocationIssues, c \in BOOLEAN :
        \E rf \in FaultChoices(i), wf \in FaultChoices(i),
           pf \in (IF c THEN FaultChoices(i) ELSE { FALSE }), today \in Days :
            IngestLocation(i, c, rf, wf, pf, today)

\* The health pipeline alone.
Next == HealthNext /\ UNCHANGED << cli, conc >>

\* The location pipeline alone.
LocNext == LocationNext /\ UNCHANGED << cli, conc >>

\* Both pipelines on one vault, one invocation after the other, MaxRuns
\* invocations in all.
VaultNext ==
    (HealthNext \/ (runs < MaxRuns /\ LocationNext)) /\ UNCHANGED << cli, conc >>

Spec == Init /\ [][Next]_vars

LocSpec == Init /\ [][LocNext]_vars

VaultSpec == Init /\ [][VaultNext]_vars

\* One pipeline on a vault: a behaviour is a behaviour of the health
\* pipeline or of the location pipeline, MaxRuns invocations in all.
EitherNext ==
    \/ (loc = NoLoc /\ HealthNext /\ UNCHANGED << cli, conc >>)
    \/ (issue = NoIssue /\ runs < MaxRuns /\ LocationNext
           /\ UNCHANGED << cli, conc >>)

EitherSpec == Init /\ [][EitherNext]_vars

\* ------------------------------------------------ process-issue command
AUTHORIZED_AUTHOR == "0x4444"

\* issueAuthor?.trim(), on the authors of CliCommands.
Trim(text) == IF text = " 0x4444 " THEN "0x4444" ELSE text

\* An issue body of white space only.
BodyBlank == [kind |-> "blank", ok |-> FALSE, metrics |-> << >>]

\* The runs of the command: every health and location issue of the two
\* pipelines under its own title, two other titles, and the runs the checks
\* before the routing end (no issue number, a blank body, another author).
CliCommands ==
    { Command(7, i.title, i.body, AUTHORIZED_AUTHOR, i.createdAt) :
          i \in { h \in HealthIssues : h.title = EXPECTED_ISSUE_TITLE } }
    \cup { Command(7, i.title, i.body, AUTHORIZED_AUTHOR, i.createdAt) :
               i \in { l \in LocationIssues : l.title = LOCATION_ISSUE_TITLE } }
    \cup { Command(7, "SomethingElse", BodyExport(SampleMetrics),
                   AUTHORIZED_AUTHOR, ""),
           Command(7, "UnknownTitle", LocationText, AUTHORIZED_AUTHOR, ""),
           Command(7, EXPECTED_ISSUE_TITLE, BodyExport(<< Hr(<< HrA >>) >>),
                   " 0x4444 ", ""),
           Command(7, EXPECTED_ISSUE_TITLE, BodyExport(<< Hr(<< HrA >>) >>),
                   "someone", ""),
           Command(0, EXPECTED_ISSUE_TITLE, BodyExport(<< Hr(<< HrA >>) >>),
                   AUTHORIZED_AUTHOR, ""),
           Command(7, LOCATION_ISSUE_TITLE, BodyBlank, AUTHORIZED_AUTHOR, "") }

\* The checks before the routing: the three required options, a body that
\* is not blank, the authorized author.
GatePassed(cmd) ==
    /\ cmd.number # 0
    /\ cmd.title # ""
    /\ cmd.body.kind # "blank"
    /\ Trim(cmd.author) = AUTHORIZED_AUTHOR

\* Every title routed to the health ingester.
RouteAllToHealth(title) == "health"

\* The routing by issue title.
Route(title) ==
    IF title = "HealthDataExport" THEN "health"
    ELSE IF title = "LocationDataExport" THEN "location"
    ELSE "none"

\* The state of the ingesters after a run that called neither.
NoIngesterCalled ==
    /\ issue' = NoIssue
    /\ loc' = NoLoc
    /\ idx' = 1
    /\ results' = << >> /\ errors' = << >> /\ skipped' = << >>
    /\ calls' = << >>
    /\ step' = NoStep
    /\ snap' = files
    /\ repeated' = FALSE /\ finished' = FALSE /\ clean' = TRUE
    /\ UNCHANGED << files, pc, now >>

\* The action of the command up to the call of the ingester: the checks,
\* the commenter when a token is there, the routing.  A run that the checks
\* end exits with code 1; another title is answered "Unknown issue type".
ProcessIssue(cmd, token, readerFails, writerFails, postFails, today) ==
    /\ pc = "idle"
    /\ cli.stage # "running"
    /\ runs < MaxCommands
    /\ UNCHANGED conc
    /\ IF ~GatePassed(cmd)
       THEN /\ ~readerFails /\ ~writerFails /\ ~postFails /\ today = now
            /\ cli' = [ command |-> cmd, token |-> token, stage |-> "exited",
                        code |-> 1, closed |-> FALSE ]
            /\ runs' = runs + 1
            /\ commenter' = FALSE
            /\ comments' = << >>
            /\ result' = NoResult
            /\ NoIngesterCalled
            /\ UNCHANGED faults
       ELSE /\ cli' = [ command |-> cmd, token |-> token, stage |-> "running",
                        code |-> -1, closed |-> FALSE ]
            /\ IF Route(cmd.title) = "health"
               THEN /\ ~readerFails /\ ~writerFails /\ today = now
                    /\ StartHealth([ title |-> cmd.title, body |-> cmd.body,
                                     createdAt |-> cmd.createdAt ],
                                   token, postFails)
               ELSE IF Route(cmd.title) = "location"
               THEN IngestLocation([ title |-> cmd.title, body |-> cmd.body,
                                     createdAt |-> cmd.createdAt ],
                                   token, readerFails, writerFails, postFails,
                                   today)
               ELSE /\ ~readerFails /\ ~writerFails /\ today = now
                    /\ postFails => (token /\ faults < MaxFaults)
                    /\ faults' = faults + (IF postFails THEN 1 ELSE 0)
                    /\ runs' = runs + 1
                    /\ commenter' = token
                    /\ comments' = Notify(token, "unknown type", postFails)
                    /\ result' = IF NotifyThrows(token, postFails) THEN NoResult
                                  ELSE Return(FALSE, "unknown type", << >>)
                    /\ NoIngesterCalled

\* The end of the action: the issue is closed when the result is a success
\* and a token is there, and the process exits with 0 on success, with 1 on a
\* failure and on an exception.
ExitCommand ==
    /\ cli.stage = "running"
    /\ pc = "idle"
    /\ cli' = [ cli EXCEPT
                  !.stage = "exited",
                  !.code = IF result.returned /\ result.success THEN 0 ELSE 1,
                  !.closed = result.returned /\ result.success /\ cli.token ]
    /\ UNCHANGED << files, pc, issue, commenter, idx, results, errors, skipped,
                    result, comments, calls, step, snap, repeated, finished,
                    clean, loc, now, conc, runs, faults >>

CliNext ==
    \/ \E cmd \in CliCommands, token \in BOOLEAN :
           \E rf \in FaultChoices(cmd), wf \in FaultChoices(cmd),
              pf \in (IF token /\ faults < MaxFaults THEN BOOLEAN ELSE { FALSE }),
              today \in Days :
               ProcessIssue(cmd, token, rf, wf, pf, today)
    \/ ((\E rf \in BOOLEAN, wf \in BOOLEAN : ProcessStep(rf, wf))
           /\ UNCHANGED << cli, conc >>)
    \/ ((\E pf \in BOOLEAN : FinishHealth(pf)) /\ UNCHANGED << cli, conc >>)
    \/ ExitCommand

\* The process-issue command on a vault.
CliSpec == Init /\ [][CliNext]_vars

\* ------------------------------------------------ concurrent invocations
\* A writer that keeps the records of the file the new content does not hold.
WriteKeepingOld(old, content) ==
    [ content EXCEPT
        !.items = SelectSeq(old.items,
                            LAMBDA r : \A i \in 1..Len(content.items) :
                                           content.items[i] # r)
                      \o content.items ]

\* The injected writer of the command, Bun.write(path, content): the file
\* becomes the content, whatever it held.
WriteFile(old, content) == content

\* The metric entries and the location bodies of the concurrent invocations.
ConcMetrics ==
    { Hr(<< HrA >>), Hr(<< HrB >>), Hr(<< HrC >>), Sleep(<< SleepFull >>) }

ConcLocations == { b \in LocationBodies : ParseLocationData(b).success }

\* processMetric, from its call to the return of its reader call, in process
\* p: it has read the file and holds the text it will hand to the writer.
ConcReadHealth(p, metric) ==
    /\ conc.proc[p].pc \in { "idle", "done" }
    /\ runs < MaxConcRuns
    /\ runs' = runs + 1
    /\ \E out \in { ProcessMetric(metric, files[GetMetricFilePath(metric.name)],
                                   FALSE) } :
           conc' = [ conc EXCEPT
                       !.proc[p] =
                           [ pc |-> IF out.writes THEN "read" ELSE "done",
                             path |-> out.path, metric |-> metric, data |-> << >>,
                             before |-> files[out.path],
                             readAt |-> Len(conc.log),
                             delivered |-> out.fn,
                             content |-> out.content ] ]
    /\ UNCHANGED << files, pc, issue, commenter, idx, results, errors, skipped,
                    result, comments, calls, step, snap, repeated, finished,
                    clean, loc, now, cli, faults >>

\* ingestLocationDataFromIssue on a body that parses, up to the return of
\* its reader call, in process p.
ConcReadLocation(p, body) ==
    /\ conc.proc[p].pc \in { "idle", "done" }
    /\ runs < MaxConcRuns
    /\ runs' = runs + 1
    /\ \E existingLocations \in
              { ReadExistingLocationData(files[LocationFile], FALSE) } :
       LET locationData == ParseLocationData(body).data
           lastEntry == GetLastLocationEntry(existingLocations)
           same == SameAsLastEntry(lastEntry, locationData)
           newEntry == NewLocationEntry(now, locationData)
       IN  conc' = [ conc EXCEPT
                       !.proc[p] =
                           [ pc |-> IF same THEN "done" ELSE "read",
                             path |-> LocationFile, metric |-> NoMetric,
                             data |-> locationData,
                             before |-> files[LocationFile],
                             readAt |-> Len(conc.log),
                             delivered |-> IF same THEN << >> ELSE << newEntry >>,
                             content |-> IF same THEN Absent
                                         ELSE Stringify(existingLocations
                                                        \o << newEntry >>) ] ]
    /\ UNCHANGED << files, pc, issue, commenter, idx, results, errors, skipped,
                    result, comments, calls, step, snap, repeated, finished,
                    clean, loc, now, cli, faults >>

\* The writer call of the invocation of process p, and its return.
ConcWrite(p) ==
    /\ conc.proc[p].pc = "read"
    /\ files' = [ files EXCEPT
                    ![conc.proc[p].path] =
                        WriteFile(files[conc.proc[p].path], conc.proc[p].content) ]
    /\ conc' = [ conc EXCEPT
                   !.proc[p].pc = "done",
                   !.log = Append(conc.log,
                                  [ p |-> p, path |-> conc.proc[p].path,
                                    content |-> conc.proc[p].content ]) ]
    /\ UNCHANGED << pc, issue, commenter, idx, results, errors, skipped, result,
                    comments, calls, step, snap, repeated, finished, clean, loc,
                    now, cli, runs, faults >>

ConcNext ==
    \/ \E p \in Procs, metric \in ConcMetrics : ConcReadHealth(p, metric)
    \/ \E p \in Procs, body \in ConcLocations : ConcReadLocation(p, body)
    \/ \E p \in Procs : ConcWrite(p)

\* Two processes on one vault, no lock between them.
ConcSpec == Init /\ [][ConcNext]_vars

\* ------------------------------------------------- vocabulary of the claims
\* The last processMetric call of the invocation called the writer and the
\* writer did not throw.
LastStepWrote == step.idx > 0 /\ step.out.writes /\ ~step.writerFails

\* No failure was injected into the last processMetric call.
LastStepClean == step.idx > 0 /\ ~step.readerFails /\ ~step.writerFails

\* The records of the file the last processMetric call was about.
WrittenItems == files[step.out.path].items

\* The records the file held, as text, before the last processMetric call.
StoredItems == IF step.before.tag = "json" THEN step.before.items ELSE << >>

Range(seq) == { seq[i] : i \in 1..Len(seq) }

WithDate(seq, d) == SelectSeq(seq, LAMBDA r : DateOf(r) = d)

RealDates == { D1, D2 }

RECURSIVE IsSubseq(_, _)
\* a is b with some elements left out, the others in their order.
IsSubseq(a, b) ==
    IF a = << >> THEN TRUE
    ELSE IF b = << >> THEN FALSE
    ELSE IF Head(a) = Head(b) THEN IsSubseq(Tail(a), Tail(b))
    ELSE IsSubseq(a, Tail(b))

\* The health invocation has returned after running its loop without an
\* injected failure.
CleanRunDone == pc = "idle" /\ finished /\ clean

\* A reader failure, invalid JSON or a schema failure of a health file.
UnreadableHealth(content, readerFails) ==
    \/ readerFails
    \/ content.tag # "json"
    \/ ~content.shapeOk
    \/ \E i \in 1..Len(content.items) : ~FileItemOk(content.items[i])

UnreadableLocation(content, readerFails) ==
    \/ readerFails
    \/ content.tag # "json"
    \/ ~content.shapeOk
    \/ \E i \in 1..Len(content.items) :
           ~SchemaOk(LocationEntrySchema, content.items[i])

\* ------------------------------------------------------------------ claims
\* C1 (as claimed): running ingestHealthDataFromIssue a second time with the
\* same payload, on the files the first run left, leaves every file with
\* exactly the content it had after the first run.
C1_SecondRunChangesNothing ==
    (CleanRunDone /\ repeated) => files = snap

\* C2 (as claimed): when the file holds a record for date D and the ingestion
\* delivers a record for D with different field values, the file afterwards
\* holds exactly one record for D, and it is a delivered one.
C2_OneRecordWithNewValues ==
    \A d \in RealDates :
        ( /\ LastStepClean /\ LastStepWrote
          /\ \E e \in Range(WithDate(StoredItems, d)),
                r \in Range(WithDate(step.out.batch, d)) : e # r )
        => /\ Len(WithDate(WrittenItems, d)) = 1
           /\ WithDate(WrittenItems, d)[1] \in Range(step.out.batch)

\* C3 (as claimed): when the file holds a complete record for date D and the
\* batch delivers a record for D with different field values,
\* deduplicateMetrics keeps the stored record and drops the new one.
C3_StoredRecordKept ==
    \A d \in RealDates :
        \A e \in Range(WithDate(step.out.existing, d)),
           r \in Range(WithDate(step.out.batch, d)) :
            (step.idx > 0 /\ ~IsIncompleteSleepEntry(e) /\ e # r)
            => /\ e \in Range(step.out.fe)
               /\ r \notin Range(step.out.fn)

\* C3 (amended): when the records read from the file hold a complete record
\* for a non-empty date D and the batch delivers a record for D,
\* deduplicateMetrics drops every stored record for D and keeps every
\* delivered record for D, so a successful write leaves the file with the
\* delivered records for D and no other.
C3_StoredRecordReplaced ==
    \A d \in RealDates :
        ( /\ step.idx > 0
          /\ \E e \in Range(WithDate(step.out.existing, d)) :
                 ~IsIncompleteSleepEntry(e)
          /\ WithDate(step.out.batch, d) # << >> )
        => /\ WithDate(step.out.fe, d) = << >>
           /\ WithDate(step.out.fn, d) = WithDate(step.out.batch, d)
           /\ step.out.writes
           /\ LastStepWrote =>
                  WithDate(WrittenItems, d) = WithDate(step.out.batch, d)

C3_Witness ==
    /\ LastStepWrote
    /\ step.out.existing = << HrA >>
    /\ step.out.batch = << HrB >>
    /\ WrittenItems = << HrB >>

\* C4 (as claimed): when the sleep file holds a record with only source and
\* date for D and the batch contains a complete record for D, the written
\* file holds exactly one record for D, the complete new one.
C4_OneCompleteRecord ==
    \A d \in RealDates :
        ( /\ LastStepClean /\ LastStepWrote
          /\ step.metric.name = "sleep_analysis"
          /\ \E e \in Range(WithDate(StoredItems, d)) : IsIncompleteSleepEntry(e)
          /\ \E r \in Range(WithDate(step.out.batch, d)) : ~IsIncompleteSleepEntry(r) )
        => /\ Len(WithDate(WrittenItems, d)) = 1
           /\ WithDate(WrittenItems, d)[1] \in Range(step.out.batch)
           /\ ~IsIncompleteSleepEntry(WithDate(WrittenItems, d)[1])

\* C5 (as claimed): after a successful write by processMetric the file holds
\* at most one record for each date value.
C5_OneRecordPerDate ==
    LastStepWrote =>
        \A i, j \in 1..Len(WrittenItems) :
            DateOf(WrittenItems[i]) = DateOf(WrittenItems[j]) => i = j

C7_AscendingDates ==
    pc = "idle" =>
        \A f \in HealthFiles :
            \A i, j \in 1..Len(files[f].items) :
                i < j => DateRank(DateOf(files[f].items[i]))
                             <= DateRank(DateOf(files[f].items[j]))

\* The entries of the payload of the current invocation.
Entries == issue.body.metrics

\* The entry names a kind the router maps to a file.
Supported(j) == GetMetricFilePath(Entries[j].name) # ""

CallsOf(j) == { calls[n].op : n \in { m \in 1..Len(calls) : calls[m].idx = j } }

\* C8: a payload with an entry of an unsupported kind and entries of
\* supported kinds succeeds; the unsupported entry causes no read and no
\* write and is reported as skipped, and every valid entry of a supported
\* kind is read and reported, and written when it brings a record that has a
\* date.
C8_UnknownKindSkipped ==
    ( /\ CleanRunDone
      /\ \E j \in 1..Len(Entries) : ~Supported(j)
      /\ \E j \in 1..Len(Entries) : Supported(j) )
    => /\ result.returned /\ result.success
       /\ errors = << >>
       /\ \A j \in 1..Len(Entries) :
              IF ~Supported(j)
              THEN /\ CallsOf(j) = {}
                   /\ Msg("skip", Entries[j].name, 0, 0) \in Range(skipped)
                   /\ Msg("skip", Entries[j].name, 0, 0) \in Range(result.parts)
              ELSE HealthMetricOk(Entries[j]) =>
                   /\ "read" \in CallsOf(j)
                   /\ \E m \in Range(results) :
                          /\ m.name = Entries[j].name
                          /\ m.t \in { "saved", "nonew" }
                          /\ m \in Range(result.parts)
                   /\ (\E r \in Range(Entries[j].data) : DateOf(r) # "")
                          => /\ "write" \in CallsOf(j)
                             /\ \A r \in Range(ValidatedData(Entries[j])) :
                                    DateOf(r) # "" =>
                                    r \in Range(files[GetMetricFilePath(Entries[j].name)].items)

C8_Witness ==
    /\ CleanRunDone
    /\ Entries = << Metric("unknown_metric", "unit", << Other >>), Hr(<< HrC >>) >>
    /\ result.success
    /\ HrC \in Range(files["hr.json"].items)
    /\ skipped = << Msg("skip", "unknown_metric", 0, 0) >>

\* The file the claim gives each kind of the sample payload.
ClaimedFile(name) ==
    CASE name = "heart_rate" -> "hr.json"
      [] name = "heart_rate_variability" -> "hrv.json"
      [] name = "body_temperature" -> "bodySurfaceTemp.json"
      [] name = "sleep_analysis" -> "sleep.json"
      [] OTHER -> "restingHeartRate.json"

\* C9 (as claimed): ingesting the five-kind sample payload on empty state
\* writes one file per kind, each holding that entry's records, the
\* resting_heart_rate entry to restingHeartRate.json.
C9_OneFilePerKind ==
    ( /\ CleanRunDone
      /\ Entries = SampleMetrics
      /\ \A f \in HealthFiles : snap[f] = Absent )
    => \A j \in 1..Len(Entries) :
           files[ClaimedFile(Entries[j].name)] =
               StringifyData([metrics |-> Entries[j].data])

\* C10: when the reader fails, the content is not JSON or the parsed value
\* fails the file schema, readExistingData and readExistingLocationData
\* return the empty state and the invocation goes on as on an empty file:
\* it calls the writer, and a write that succeeds holds the newly delivered
\* records and nothing else.
C10_UnreadableIsEmpty ==
    /\ ( /\ step.idx > 0 /\ step.out.reads
         /\ UnreadableHealth(step.before, step.readerFails) )
       => /\ step.out.existing = << >>
          /\ step.out.writes
          /\ LastStepWrote =>
                 files[step.out.path] =
                     StringifyData([metrics |-> ValidatedData(step.metric)])
    /\ ( /\ loc.read
         /\ UnreadableLocation(loc.before, loc.readerFails) )
       => /\ loc.existing = << >>
          /\ loc.writes
          /\ ~loc.writerFails =>
                 /\ result.returned /\ result.success
                 /\ files[LocationFile] =
                        Stringify(<< NewLocationEntry(loc.today, loc.data) >>)

C10_Witness ==
    /\ LastStepWrote
    /\ step.before = BadItems
    /\ ~step.readerFails
    /\ WrittenItems = << HrA >>

\* ------------------------------------------------------------------ C11
\* The invocation of ingestHealthDataFromIssue ran its loop and returned.
HealthDone == pc = "idle" /\ finished

CallIdx(op, ok) ==
    { n \in 1..Len(calls) : calls[n].op = op /\ calls[n].ok = ok }

\* The reader call made for entry j threw.
ReaderFailedAt(j) == \E n \in CallIdx("read", FALSE) : calls[n].idx = j

\* The only writer call of the invocation on the path of call n is n.
OnlyWriteOn(n) ==
    \A m \in 1..Len(calls) :
        (calls[m].op = "write" /\ calls[m].path = calls[n].path) => m = n

\* What processMetric hands to the writer for entry j of the invocation.
HandedToWriter(j) ==
    ProcessMetric(Entries[j], snap[GetMetricFilePath(Entries[j].name)],
                  ReaderFailedAt(j)).content

\* C11: when the writer fails for one metric entry of a health payload, every
\* entry of the payload is still processed (each lands in one bucket, each
\* valid supported entry is read), every write that did not fail holds what
\* processMetric handed to the writer, the file of the failed write is as it
\* was, and the result is success=false listing every collected error, one
\* of them for each failed write.
C11_OtherEntriesProcessed ==
    (HealthDone /\ CallIdx("write", FALSE) # {}) =>
        /\ Len(results) + Len(errors) + Len(skipped) = Len(Entries)
        /\ \A j \in 1..Len(Entries) :
               (Supported(j) /\ HealthMetricOk(Entries[j])) => "read" \in CallsOf(j)
        /\ \A n \in CallIdx("write", TRUE) :
               OnlyWriteOn(n) => files[calls[n].path] = HandedToWriter(calls[n].idx)
        /\ \A n \in CallIdx("write", FALSE) :
               /\ OnlyWriteOn(n) => files[calls[n].path] = snap[calls[n].path]
               /\ Msg("error", Entries[calls[n].idx].name, 0, 0) \in Range(errors)
        /\ result = Return(FALSE, "errors", errors)
        /\ Len(errors) > 0

\* A payload whose second write failed, with a write that stands before it and
\* one after it.
C11_Witness ==
    /\ HealthDone
    /\ \E n \in CallIdx("write", FALSE) :
           /\ \E b \in CallIdx("write", TRUE) :
                  /\ calls[b].idx < calls[n].idx
                  /\ files[calls[b].path] # snap[calls[b].path]
           /\ \E a \in CallIdx("write", TRUE) :
                  /\ calls[a].idx > calls[n].idx
                  /\ files[calls[a].path] # snap[calls[a].path]

\* ------------------------------------------------------------------ C12
\* The last invocation was one of ingestHealthDataFromIssue and it is over.
HealthEnded == pc = "idle" /\ issue # NoIssue

\* The last invocation was one of ingestLocationDataFromIssue.
LocationEnded == pc = "idle" /\ loc.issue # NoLocIssue

\* The body of a health issue is not JSON or lacks data.metrics.
MalformedHealthBody(body) == body.kind # "json" \/ ~body.ok

\* The body of a location issue is not JSON or lacks city or country.
MalformedLocationBody(body) ==
    body.kind # "json" \/ ~SchemaOk(LocationDataSchema, body.json)

WriterCalls == { n \in 1..Len(calls) : calls[n].op = "write" }

ReaderCalls == { n \in 1..Len(calls) : calls[n].op = "read" }

\* The commenter, when one was given, was called once, with this message.
NotifiedOnceWith(message) ==
    IF commenter
    THEN Len(comments) = 1 /\ comments[1].message = message
    ELSE comments = << >>

\* C12: for an issue with the expected title whose body is not valid JSON or
\* lacks the required top-level shape, each orchestrator returns
\* success=false with the parse or validation error as message, calls the
\* commenter it was given exactly once with that error, calls the writer
\* zero times and leaves the vault as it was.
C12_MalformedBodyFails ==
    /\ ( /\ HealthEnded
         /\ ValidateIssueTitle(issue.title)
         /\ MalformedHealthBody(issue.body) )
       => /\ result =
                Return(FALSE, IF issue.body.kind # "json" THEN "parse"
                              ELSE "validation", << >>)
          /\ NotifiedOnceWith(result.head)
          /\ WriterCalls = {}
          /\ files = snap
    /\ ( /\ LocationEnded
         /\ ValidateLocationIssueTitle(loc.issue.title)
         /\ MalformedLocationBody(loc.issue.body) )
       => /\ result =
                Return(FALSE, IF loc.issue.body.kind # "json" THEN "parse"
                              ELSE "validation", << >>)
          /\ NotifiedOnceWith(result.head)
          /\ WriterCalls = {}
          /\ files = snap

\* A health issue whose body is the text "invalid json", with a commenter.
C12_Witness ==
    /\ HealthEnded
    /\ ValidateIssueTitle(issue.title)
    /\ issue.body = BodyText
    /\ commenter
    /\ result.returned

\* A location issue whose body lacks city, with a commenter.
C12_LocationCase ==
    /\ LocationEnded
    /\ ValidateLocationIssueTitle(loc.issue.title)
    /\ loc.issue.body.kind = "json"
    /\ MalformedLocationBody(loc.issue.body)
    /\ commenter
    /\ result.returned

\* ------------------------------------------------------------------ C13
\* C13: when the issue title differs from the pipeline's expected literal,
\* ingestHealthDataFromIssue and ingestLocationDataFromIssue return
\* success=true and make no reader call, no writer call and no commenter
\* call, whatever the body is and whether or not a commenter was given.
C13_OtherTitleIsNoOp ==
    /\ (HealthEnded /\ issue.title # EXPECTED_ISSUE_TITLE)
       => /\ result = Return(TRUE, "not intended", << >>)
          /\ calls = << >>
          /\ comments = << >>
          /\ files = snap
    /\ (LocationEnded /\ loc.issue.title # LOCATION_ISSUE_TITLE)
       => /\ result = Return(TRUE, "not intended", << >>)
          /\ calls = << >>
          /\ comments = << >>
          /\ files = snap

\* A health invocation on another title with a valid export as body and a
\* commenter.
C13_Witness ==
    /\ HealthEnded
    /\ issue.title # EXPECTED_ISSUE_TITLE
    /\ ~MalformedHealthBody(issue.body)
    /\ commenter
    /\ result.returned

\* A location invocation on another title, with a valid body and with text.
C13_LocationCase ==
    /\ LocationEnded
    /\ loc.issue.title # LOCATION_ISSUE_TITLE
    /\ ~MalformedLocationBody(loc.issue.body)
    /\ commenter
    /\ result.returned

C13_LocationTextCase ==
    /\ LocationEnded
    /\ loc.issue.title # LOCATION_ISSUE_TITLE
    /\ loc.issue.body = LocationText
    /\ result.returned

\* ------------------------------------------------------------------ C14
\* A commenter call of the last invocation whose post failed.
PostFailed == \E k \in 1..Len(comments) : ~comments[k].posted

\* What ingestHealthDataFromIssue returns for the issue and the buckets of
\* the invocation, by steps 2 and 4 of the code.
ExpectedHealthResult ==
    IF MalformedHealthBody(issue.body)
    THEN Return(FALSE, IF issue.body.kind # "json" THEN "parse" ELSE "validation",
                << >>)
    ELSE IF Len(errors) > 0 THEN Return(FALSE, "errors", errors)
    ELSE Return(TRUE, "ingested", results \o skipped)

\* What ingestLocationDataFromIssue returns for the issue and the entries it
\* read, by steps 2, 4 and 5 of the code.
ExpectedLocationResult ==
    IF MalformedLocationBody(loc.issue.body)
    THEN Return(FALSE, IF loc.issue.body.kind # "json" THEN "parse"
                       ELSE "validation", << >>)
    ELSE IF SameAsLastEntry(GetLastLocationEntry(loc.existing), loc.data)
    THEN Return(TRUE, "not updated", << >>)
    ELSE Return(TRUE, "updated", << >>)

\* C14: a failed post of the commenter never fails ingestion: an invocation
\* of either orchestrator whose commenter call failed still returns the
\* {success, message} that the issue and the processing determine, and every
\* write it made holds what was handed to the writer.
C14_NotifierFailureSwallowed ==
    /\ (HealthEnded /\ PostFailed)
       => /\ result = ExpectedHealthResult
          /\ \A n \in CallIdx("write", TRUE) :
                 OnlyWriteOn(n) => files[calls[n].path] = HandedToWriter(calls[n].idx)
    /\ (LocationEnded /\ PostFailed)
       => /\ result = ExpectedLocationResult
          /\ loc.writes =>
                 files[LocationFile] =
                     Stringify(loc.existing
                               \o << NewLocationEntry(loc.today, loc.data) >>)

\* A health invocation that wrote a file and whose success comment was not
\* posted.
C14_Witness ==
    /\ HealthEnded
    /\ PostFailed
    /\ CallIdx("write", TRUE) # {}
    /\ result.returned /\ result.success

\* A location invocation that appended an entry and whose comment was not
\* posted.
C14_LocationCase ==
    /\ LocationEnded
    /\ PostFailed
    /\ loc.writes
    /\ result.returned /\ result.success

\* ------------------------------------------------------------------ C15
\* A reader or writer call of the last invocation threw.
SomeCallFailed == \E n \in 1..Len(calls) : ~calls[n].ok

\* C15: every invocation of ingestHealthDataFromIssue and of
\* ingestLocationDataFromIssue ends by returning a {success, message} pair,
\* whatever the injected reader and writer do, and an invocation in which a
\* reader or writer call failed returns success=false.
C15_AlwaysReturnsPair ==
    (HealthEnded \/ LocationEnded) =>
        /\ result.returned
        /\ SomeCallFailed => ~result.success

\* The part of C15 about the writer of the location pipeline alone: an
\* invocation whose writer call threw returns a pair.
C15_LocationWriterFailureReturns ==
    (LocationEnded /\ CallIdx("write", FALSE) # {}) => result.returned

\* ------------------------------------------------------------------ C16
\* The entries of the location file, << >> when it holds no valid list.
StoredLocations == ReadExistingLocationData(files[LocationFile], FALSE)

CityOf(entry) == Get(entry, "city").v

CountryOf(entry) == Get(entry, "country").v

\* C16: after any sequence of location ingestions on a location file that
\* was absent or held no entries, no two consecutive entries of the file
\* have the same city string.
C16_NoConsecutiveSameCity ==
    \A k \in 1..(Len(StoredLocations) - 1) :
        CityOf(StoredLocations[k]) # CityOf(StoredLocations[k + 1])

\* The file holds two entries and the last observation, the city of the
\* second one again, was suppressed.
C16_Witness ==
    /\ LocationEnded
    /\ Len(StoredLocations) >= 2
    /\ loc.read /\ ~loc.writes
    /\ CityOf(loc.data) = CityOf(StoredLocations[Len(StoredLocations)])

\* ------------------------------------------------------------------ C17
\* The last location invocation got past the title and the parse of the
\* body, so it read the file and compared.
LocationCompared == LocationEnded /\ loc.read

\* The observation was suppressed: no writer call, the vault as it was,
\* success with the message "Location not updated".
Suppressed ==
    /\ WriterCalls = {}
    /\ files = snap
    /\ result = Return(TRUE, "not updated", << >>)

\* The city of the observation is, character for character, the city of the
\* last entry that was read.
CityEqualsLastStored ==
    /\ loc.existing # << >>
    /\ CityOf(loc.existing[Len(loc.existing)]) = CityOf(loc.data)

\* C17: a location observation is suppressed (no write, success=true,
\* message "Location not updated") if and only if its city string equals
\* exactly, case-sensitively, the city of the last stored entry, the entries
\* being those of the file when the reader returns them; the countries play
\* no part.
C17_SuppressedIffSameCity ==
    LocationCompared =>
        /\ Suppressed <=> CityEqualsLastStored
        /\ ~loc.readerFails =>
               loc.existing = ReadExistingLocationData(snap[LocationFile], FALSE)
        /\ ~Suppressed => WriterCalls # {}

\* The file holds "new delhi" then "New Delhi, India": the change of case was
\* appended, and the observation "New Delhi, Bharat" was suppressed.
C17_Witness ==
    /\ LocationCompared
    /\ Suppressed
    /\ CountryOf(loc.data) # CountryOf(loc.existing[Len(loc.existing)])
    /\ Len(loc.existing) >= 2
    /\ LowerCase(CityOf(loc.existing[Len(loc.existing) - 1]))
           = LowerCase(CityOf(loc.data))

\* ------------------------------------------------------------------ C18
\* The city of the observation is in the entries read, but not as the last.
RevisitAfterElsewhere ==
    /\ LocationCompared
    /\ loc.existing # << >>
    /\ CityOf(loc.existing[Len(loc.existing)]) # CityOf(loc.data)
    /\ \E k \in 1..(Len(loc.existing) - 1) :
           CityOf(loc.existing[k]) = CityOf(loc.data)

\* C18: the location pipeline compares a new city with the last stored entry
\* only: an observation of a city that the history holds before its last
\* entry is appended, so that after city A, then another city B, then A
\* again, the file holds the three entries A, B, A in that order.
C18_RevisitAppended ==
    (RevisitAfterElsewhere /\ ~SomeCallFailed) =>
        /\ Len(StoredLocations) = Len(loc.existing) + 1
        /\ \A k \in 1..Len(loc.existing) : StoredLocations[k] = loc.existing[k]
        /\ CityOf(StoredLocations[Len(StoredLocations)]) = CityOf(loc.data)
        /\ result = Return(TRUE, "updated", << >>)

\* Three ingestions on a file without entries: A, then B, then A again, and
\* the file holds A, B, A.
C18_Witness ==
    /\ RevisitAfterElsewhere
    /\ runs = 3
    /\ Len(StoredLocations) = 3
    /\ CityOf(StoredLocations[1]) = CityOf(StoredLocations[3])
    /\ CityOf(StoredLocations[1]) # CityOf(StoredLocations[2])

\* ------------------------------------------------------------------ C19
\* The location invocation called the writer and the writer returned.
LocationWrote == LocationCompared /\ CallIdx("write", TRUE) # {}

\* C19: when the location pipeline writes, the written list is the entries
\* it read (those of the file as it was, when the reader returned a valid
\* list), unchanged and in order, followed by exactly one new entry with the
\* keys date, city, country: city and country are those of the issue body,
\* the date is the current processing date, whatever date the body carries
\* and whatever issue.createdAt is.
C19_AppendsOneDatedEntry ==
    LocationWrote =>
        /\ files[LocationFile] =
               Stringify(loc.existing
                         \o << << Str("date", loc.today),
                                  Str("city", CityOf(loc.issue.body.json)),
                                  Str("country", CountryOf(loc.issue.body.json)) >> >>)
        /\ loc.today \in Days
        /\ ~loc.readerFails =>
               loc.existing = ReadExistingLocationData(snap[LocationFile], FALSE)
        /\ loc.existing # << >> => loc.existing = snap[LocationFile].items

\* An issue created on another day, whose body carries a date of its own,
\* appended on the second day to a file that held an entry.
C19_Witness ==
    /\ LocationWrote
    /\ loc.existing # << >>
    /\ loc.issue.createdAt # ""
    /\ Has(loc.issue.body.json, "date")
    /\ loc.today # FirstDay
    /\ Len(StoredLocations) = Len(loc.existing) + 1

\* ------------------------------------------------------------------ C20
\* C20: an invocation of either orchestrator with the expected title and a
\* commenter ends with a returned result after exactly one commenter call;
\* with another title or without a commenter the commenter is called zero
\* times.
C20_NotifiedExactlyOnce ==
    /\ HealthEnded =>
           IF ValidateIssueTitle(issue.title) /\ commenter
           THEN Len(comments) = 1 /\ result.returned
           ELSE comments = << >>
    /\ LocationEnded =>
           IF ValidateLocationIssueTitle(loc.issue.title) /\ commenter
           THEN Len(comments) = 1 /\ result.returned
           ELSE comments = << >>

\* The same, but for the location invocations whose writer call threw.
C20_ExceptLocationWriterFailure ==
    /\ HealthEnded =>
           IF ValidateIssueTitle(issue.title) /\ commenter
           THEN Len(comments) = 1 /\ result.returned
           ELSE comments = << >>
    /\ (LocationEnded /\ CallIdx("write", FALSE) = {}) =>
           IF ValidateLocationIssueTitle(loc.issue.title) /\ commenter
           THEN Len(comments) = 1 /\ result.returned
           ELSE comments = << >>

\* ------------------------------------------------------------------ C21
\* The last run of the command passed its checks and reached the routing.
Routed == cli.stage # "none" /\ GatePassed(cli.command)

\* The health ingester, and not the location one, was called on the issue of
\* the command.
OnlyHealthCalled ==
    /\ issue = [ title |-> cli.command.title, body |-> cli.command.body,
                 createdAt |-> cli.command.createdAt ]
    /\ loc = NoLoc

\* The location ingester, and not the health one, was called on the issue of
\* the command.
OnlyLocationCalled ==
    /\ loc.issue = [ title |-> cli.command.title, body |-> cli.command.body,
                     createdAt |-> cli.command.createdAt ]
    /\ issue = NoIssue

\* Neither ingester was called, and nothing was read or written.
NeitherCalled ==
    /\ issue = NoIssue
    /\ loc = NoLoc
    /\ calls = << >>
    /\ files = snap

\* C21: a run of the process-issue command that reaches the routing calls
\* exactly one ingester: the health one for the title "HealthDataExport",
\* the location one for the title "LocationDataExport"; for any other title
\* it calls neither, the result is success=false with the message "Unknown
\* issue type ...", and the process exits with code 1.
C21_OneIngesterPerIssue ==
    Routed =>
        /\ cli.command.title = EXPECTED_ISSUE_TITLE => OnlyHealthCalled
        /\ cli.command.title = LOCATION_ISSUE_TITLE => OnlyLocationCalled
        /\ cli.command.title \notin { EXPECTED_ISSUE_TITLE, LOCATION_ISSUE_TITLE }
           => /\ NeitherCalled
              /\ result = Return(FALSE, "unknown type", << >>)
              /\ cli.stage = "exited" => (cli.code = 1 /\ ~cli.closed)

\* A run on the title "UnknownTitle", with a token, that has exited.
C21_Witness ==
    /\ Routed
    /\ cli.command.title = "UnknownTitle"
    /\ cli.token
    /\ cli.stage = "exited"
    /\ Len(comments) = 1

\* Runs on the two expected titles that have exited with code 0.
C21_HealthCase ==
    /\ Routed
    /\ cli.command.title = EXPECTED_ISSUE_TITLE
    /\ cli.stage = "exited" /\ cli.code = 0 /\ cli.closed
    /\ WriterCalls # {}

C21_LocationCase ==
    /\ Routed
    /\ cli.command.title = LOCATION_ISSUE_TITLE
    /\ cli.stage = "exited" /\ cli.code = 0 /\ cli.closed
    /\ WriterCalls # {}

\* ------------------------------------------------------------------ C22
\* The keys of a schema, in declaration order.
DeclaredKeys(shape) == [i \in 1..Len(shape) |-> shape[i].k]

\* The declared keys the record has stand in the record in the declaration
\* order of the schema.
InSchemaOrder(item, shape) ==
    IsSubseq(SelectSeq(Keys(item), LAMBDA k : k \in ShapeKeys(shape)),
             DeclaredKeys(shape))

\* C22 (as claimed): every record of a file processMetric has written, the
\* newly delivered ones and the ones re-read from the file and written back,
\* has its fields in the declaration order of the schema of the file's kind.
C22_SchemaKeyOrder ==
    LastStepWrote =>
        \A i \in 1..Len(WrittenItems) :
            InSchemaOrder(WrittenItems[i], MetricDataSchema(step.metric.name))

\* The same for the delivered records alone: the records of the batch are
\* written in the declaration order of their kind.
C22_DeliveredInSchemaOrder ==
    LastStepWrote =>
        \A i \in 1..Len(step.out.fn) :
            InSchemaOrder(step.out.fn[i], MetricDataSchema(step.metric.name))

\* ------------------------------------------------------------------ C23
\* The issue of the invocation carries a creation time.
IssueHasCreatedAt == issue.createdAt # ""

\* C23: no file of the health pipeline has a top-level key issueCreatedAt,
\* whether or not the issue carries createdAt; a file processMetric has
\* written has the one top-level key metrics, and none of its records has a
\* field issueCreatedAt.
C23_OnlyMetricsWritten ==
    /\ \A f \in HealthFiles : "issueCreatedAt" \notin files[f].top
    /\ LastStepWrote =>
           /\ files[step.out.path].top = {"metrics"}
           /\ \A i \in 1..Len(WrittenItems) :
                  ~Has(WrittenItems[i], "issueCreatedAt")

\* A write of hr.json by an invocation whose issue carries createdAt, over
\* a record an issue without createdAt delivered.
C23_Witness ==
    /\ LastStepWrote
    /\ IssueHasCreatedAt
    /\ step.out.path = "hr.json"
    /\ step.out.existing = << HrA >>
    /\ WrittenItems = << HrB >>

\* The same for an issue without createdAt.
C23_WithoutCreatedAt ==
    /\ LastStepWrote
    /\ ~IssueHasCreatedAt
    /\ step.out.path = "hr.json"
    /\ WrittenItems # << >>

\* ------------------------------------------------------------------ C24
\* The reader and writer calls of the invocation come in payload order: the
\* calls for an entry stand before the calls for every later entry, an entry
\* has at most one reader call and one writer call, its reader call first,
\* and each call is on the file of its entry.
CallsInPayloadOrder ==
    /\ \A m, n \in 1..Len(calls) :
           m < n => \/ calls[m].idx < calls[n].idx
                    \/ /\ calls[m].idx = calls[n].idx
                       /\ calls[m].op = "read" /\ calls[n].op = "write"
    /\ \A n \in 1..Len(calls) :
           /\ calls[n].idx \in 1..Len(Entries)
           /\ calls[n].path = GetMetricFilePath(Entries[calls[n].idx].name)

\* The entries before the last processed one whose writer call, on the file
\* of the last processed one, succeeded.
EarlierWritersOfFile ==
    { calls[n].idx : n \in { m \in CallIdx("write", TRUE) :
                               /\ calls[m].idx < step.idx
                               /\ calls[m].path = step.out.path } }

\* C24: ingestHealthDataFromIssue processes the entries in payload order, the
\* reader call and the writer call of an entry are over before the reader
\* call of the next entry is made, and an entry whose file an earlier entry
\* of the same payload has written reads the file as that entry wrote it.
C24_SequentialEntries ==
    (issue # NoIssue /\ ValidateIssueTitle(issue.title)) =>
        /\ CallsInPayloadOrder
        /\ step.idx > 0 =>
               /\ step.idx = idx - 1
               /\ step.metric = Entries[step.idx]
               /\ \A n \in 1..Len(calls) : calls[n].idx <= step.idx
        /\ \A i \in EarlierWritersOfFile :
               (step.out.reads /\ EarlierWritersOfFile = { i })
               => /\ step.before = HandedToWriter(i)
                  /\ ~step.readerFails =>
                         step.out.existing = ReadExistingData(HandedToWriter(i), FALSE)

\* The second heart_rate entry of a payload has read the record the first
\* one wrote and has written both.
C24_Witness ==
    /\ LastStepWrote
    /\ step.idx = 2
    /\ EarlierWritersOfFile = { 1 }
    /\ step.out.existing = << HrA >>
    /\ WrittenItems = << HrA, HrC >>

\* ------------------------------------------------------------------ C25
\* The last processed entry names a supported kind, and its units or one of
\* its records fail the schema of that kind.
InvalidSupportedEntry ==
    /\ step.idx > 0
    /\ step.metric.name \in DOMAIN METRIC_TO_FILE_MAP
    /\ \/ step.metric.units # MetricUnits(step.metric.name)
       \/ \E i \in 1..Len(step.metric.data) :
              ~SchemaOk(MetricDataSchema(step.metric.name), step.metric.data[i])

\* C25: an entry of a supported kind whose units or records fail the schema
\* of the kind is skipped: processMetric calls neither the reader nor the
\* writer for it and returns success with the message "Skipping unknown
\* metric: <name>"; the loop files it under the skipped entries, not under
\* the errors, and an invocation without other errors returns success.
C25_InvalidEntrySkipped ==
    InvalidSupportedEntry =>
        /\ ~step.out.reads /\ ~step.out.writes
        /\ CallsOf(step.idx) = {}
        /\ step.out.result =
               [ success |-> TRUE,
                 message |-> Msg("skip", step.metric.name, 0, 0) ]
        /\ skipped # << >>
        /\ skipped[Len(skipped)] = Msg("skip", step.metric.name, 0, 0)
        /\ \A m \in Range(errors) \cup Range(results) : m.name # step.metric.name
        /\ (HealthDone /\ errors = << >> /\ result.returned) =>
               /\ result.success
               /\ Msg("skip", step.metric.name, 0, 0) \in Range(result.parts)

\* A heart_rate entry with a record that has no date, skipped by an
\* invocation that has returned success and left the vault as it was.
C25_Witness ==
    /\ InvalidSupportedEntry
    /\ step.metric = Hr(<< Other >>)
    /\ HealthDone /\ result.returned /\ result.success
    /\ Len(skipped) = 2
    /\ calls = << >>
    /\ files = snap

\* The same for an entry with the units of another kind.
C25_WrongUnits ==
    /\ InvalidSupportedEntry
    /\ step.metric = Metric("heart_rate", "bpm", << HrA >>)
    /\ skipped = << Msg("skip", "heart_rate", 0, 0) >>

\* ------------------------------------------------------------------ C26
\* The date of the record is the date of no record of the list.
DateMatchesNone(e, batch) ==
    \A i \in 1..Len(batch) : DateOf(batch[i]) # DateOf(e)

\* The records of the list whose date is the date of no record of the batch.
Unmatched(seq, batch) == SelectSeq(seq, LAMBDA e : DateMatchesNone(e, batch))

\* C26: deduplicateMetrics keeps every existing record whose date is the
\* date of no record of the batch, unchanged and in stored order;
\* filteredExistingMetrics is a subsequence of the existing records and
\* filteredNewMetrics a subsequence of the new ones; the two lists it was
\* given are, after the call, the records read from the file and the
\* validated records of the entry.
C26_UnmatchedKept ==
    (step.idx > 0 /\ step.out.reads) =>
        /\ Unmatched(step.out.fe, step.out.batch)
               = Unmatched(step.out.existing, step.out.batch)
        /\ IsSubseq(step.out.fe, step.out.existing)
        /\ IsSubseq(step.out.fn, step.out.batch)
        /\ step.out.existing = ReadExistingData(step.before, step.readerFails)
        /\ step.out.batch = ValidatedData(step.metric)

\* A stored record of the date of the batch is removed and the stored record
\* without a date, which no record of the batch matches, is kept.
C26_Witness ==
    /\ LastStepWrote
    /\ step.out.existing = << HrA, HrNoDate >>
    /\ step.out.batch = << HrB >>
    /\ step.out.fe = << HrNoDate >>
    /\ WrittenItems = << HrNoDate, HrB >>

\* ------------------------------------------------------------------ C27
\* The writer calls made on the file, as indices of the log.
WritesOn(f) == { n \in 1..Len(conc.log) : conc.log[n].path = f }

\* The last writer call made on the file.
LastWriteOn(f) == CHOOSE n \in WritesOn(f) : \A m \in WritesOn(f) : m <= n

\* Processes p and q have both read the file before either wrote it, both
\* have written it, q last, and a record that only p delivered is not in the
\* file.
LostUpdate(p, q) ==
    /\ p # q
    /\ conc.proc[p].pc = "done" /\ conc.proc[q].pc = "done"
    /\ conc.proc[p].path = conc.proc[q].path
    /\ conc.proc[p].before = conc.proc[q].before
    /\ conc.proc[p].readAt = conc.proc[q].readAt
    /\ \E m, n \in WritesOn(conc.proc[p].path) :
           /\ conc.proc[p].readAt < m /\ m < n
           /\ n = LastWriteOn(conc.proc[p].path)
           /\ conc.log[m].p = p /\ conc.log[n].p = q
           /\ \E r \in Range(conc.proc[p].delivered) :
                  /\ r \in Range(conc.log[m].content.items)
                  /\ r \notin Range(conc.proc[q].delivered)
                  /\ r \notin Range(files[conc.proc[p].path].items)

\* C27: with two invocations running at the same time on one file, the file
\* is at every moment the text of the last writer call made on it, which was
\* computed from what that invocation had read; nothing of the writer calls
\* before is merged into it.
C27_LastWriterWins ==
    /\ \A f \in HealthFiles \cup { LocationFile } :
           IF WritesOn(f) = {} THEN files[f] \in { ContentOf(f, c) : c \in InitialContents }
           ELSE files[f] = conc.log[LastWriteOn(f)].content
    /\ \A p \in Procs :
           (conc.proc[p].pc = "read" /\ conc.proc[p].metric # NoMetric) =>
               conc.proc[p].content =
                   ProcessMetric(conc.proc[p].metric, conc.proc[p].before,
                                 FALSE).content

\* The lost update on hr.json: both processes read it before either writes.
C27_Witness ==
    /\ \E p, q \in Procs : LostUpdate(p, q)
    /\ conc.proc[1].path = "hr.json"

\* The lost update on location.json.
C27_LocationLostUpdate ==
    /\ \E p, q \in Procs : LostUpdate(p, q)
    /\ conc.proc[1].path = LocationFile

\* ------------------------------------------------------------------ C28
\* The last processMetric call read a file, and every record of its batch
\* has a date that the records read hold in a complete record.
BatchAlreadyStored ==
    /\ step.idx > 0 /\ step.out.reads
    /\ step.out.batch # << >>
    /\ \A r \in Range(step.out.batch) :
           /\ DateOf(r) # ""
           /\ \E e \in Range(step.out.existing) :
                  DateOf(e) = DateOf(r) /\ ~IsIncompleteSleepEntry(e)

\* processMetric returned "No new data for <kind> (already ingested)".
NoNewData == step.out.result.message = Msg("nonew", step.metric.name, 0, 0)

C28_NoNewDataCase ==
    /\ step.idx > 0 /\ step.out.reads
    /\ NoNewData
    /\ step.out.batch = << HrNoDate >>
    /\ step.out.existing = << HrNoDate >>

\* ------------------------------------------------------------------ C29
\* The entries of the invocation whose reader call, writer call threw.
ReaderFailedEntries == { calls[n].idx : n \in CallIdx("read", FALSE) }
WriterFailedEntries == { calls[n].idx : n \in CallIdx("write", FALSE) }

\* ingestHealthDataFromExport on the export the body of the issue parses to,
\* on the vault the invocation started from, with the same calls throwing.
ExportRun ==
    IngestHealthDataFromExport(issue.body, snap, ReaderFailedEntries,
                               WriterFailedEntries)

\* C29: for an issue with the expected title whose body parses to an export,
\* ingestHealthDataFromIssue makes the reader and writer calls of
\* ingestHealthDataFromExport on that export and the same vault, in the same
\* order, on the same paths and with the same contents, leaves the same
\* vault and returns the same success and message; the commenter calls are
\* all the issue path adds.
C29_IssueAsExport ==
    ( /\ HealthDone
      /\ issue.title = EXPECTED_ISSUE_TITLE
      /\ issue.body.kind = "json" /\ issue.body.ok
      /\ result.returned )
    => LET export == ExportRun
       IN  /\ calls = export.calls
           /\ files = export.files
           /\ result = export.result
           /\ Len(comments) = (IF commenter THEN 1 ELSE 0)

\* The sample payload ingested from an issue with a commenter, one writer
\* call failing: the calls and the failure result of the export path, and
\* one comment.
C29_Witness ==
    /\ HealthDone
    /\ Entries = SampleMetrics
    /\ result.returned /\ ~result.success
    /\ WriterFailedEntries # {}
    /\ Len(calls) = 8
    /\ commenter /\ Len(comments) = 1

\* The payload with a skipped entry and a saved one, without a failure.
C29_SuccessCase ==
    /\ HealthDone
    /\ Entries = << Metric("unknown_metric", "unit", << Other >>), Hr(<< HrC >>) >>
    /\ result.returned /\ result.success
    /\ Len(result.parts) = 2
    /\ commenter /\ Len(comments) = 1

\* ------------------------------------------------------------------ C30
\* The records read from the file that the filter removed and that have only
\* source and date.
RemovedIncomplete ==
    SelectSeq(step.out.existing,
              LAMBDA e : /\ IsIncompleteSleepEntry(e)
                         /\ ~KeepExisting(e, step.out.batch))

\* C30 (as claimed): the number k of the suffix "(replaced k incomplete
\* entry/entries)" of the message of a successful processMetric call is the
\* number of removed stored records that have only source and date; the
\* suffix is absent (k = 0) when no such record was removed.
C30_CountsIncompleteRemoved ==
    (step.idx > 0 /\ step.out.result.message.t = "saved") =>
        step.out.result.message.replaced = Len(RemovedIncomplete)

\* What the number is: the number of all stored records the filter removed.
C30_CountsAllRemoved ==
    (step.idx > 0 /\ step.out.result.message.t = "saved") =>
        step.out.result.message.replaced
            = Len(step.out.existing) - Len(step.out.fe)

====
